---- MODULE Spec2Model ----
(***************************************************************************)
(* PhysVLM-Intent: the per-video annotation pipeline                       *)
(* (IntentLabelPipeline.process), the frame sampler (split_video_by_words),*)
(* the speech segmenter (audio_to_words_with_timestamps), the media        *)
(* normalizer (extract_audio_and_video), the batch worker pool and the     *)
(* batch tasks of /api/pipeline/start with their annotations file, as      *)
(* state machines over the outcomes of their external calls (ffmpeg, ASR,  *)
(* OpenCV, the chat models, the filesystem); convert_to_mono and the       *)
(* message builder of the video-intent call as functions of their inputs.  *)
(***************************************************************************)
EXTENDS Integers, Naturals, Sequences, FiniteSets, TLC

\* ------------------------------------------------------------------ bounds
MaxWords == 2        \* longest word list
MaxDescs == 3        \* most <description> matches in one model response
MaxSpan == 12        \* sample-time runs: word times are 0..MaxSpan ms
MaxInterval == 5     \* sample-time runs: the interval is 1..MaxInterval ms
MaxFrameTick == 50   \* frame-index runs: sample times are 0, 100, ..., MaxFrameTick*100 ms
MaxTasks == 2        \* batch tasks started through /api/pipeline/start
MaxVideos == 2       \* videos of the collection

\* ------------------------------------------------------- small input sets
\* word times in ms; with the intervals below a word has 1, 2 or 3 samples
Times == {0, 100, 200}
Intervals == {100, 200}
\* fps = 0 is what OpenCV reports when the container carries no frame rate
FpsSet == {0, 30}
FrameCounts == {0, 9}
\* width and height of the terminal frame inside process
ImageSizes == {<<720, 480>>}
\* responses of the localization model that parse: a point [y, x] and a
\* label. 1000 is the documented upper end of a point, 1200 is outside it;
\* the label "surrogate" stands for a string holding a lone surrogate
\* (json.loads accepts the escape \ud83d), which UTF-8 cannot encode
LocateResponses ==
  {[point |-> <<500, 750>>, label |-> "cup"],
   [point |-> <<1000, 175>>, label |-> "surrogate"],
   [point |-> <<1200, 300>>, label |-> "table"]}

Word(text, b, e) == [text |-> text, begin_time |-> b, end_time |-> e]

\* Word lists as a recognizer produces them: words in time order, a word
\* never starts before the previous one ended.
RECURSIVE WordLists(_, _, _, _)
WordLists(n, from, texts, times) ==
  IF n = 0 THEN {<< >>}
  ELSE UNION { { <<Word(w[1], w[2], w[3])>> \o rest :
                 rest \in WordLists(n - 1, w[3], texts, times) } :
               w \in { v \in texts \X times \X times :
                         v[2] >= from /\ v[2] <= v[3] } }

\* the word lists split_video_by_words is called with directly
AllWordLists == UNION { WordLists(n, 0, {"a", "b"}, Times) : n \in 0..MaxWords }

\* the word lists the recognizer returns inside process: a word is an
\* instant or lasts 200 ms
AsrWordLists == UNION { WordLists(n, 0, {"a"}, {0, 200}) : n \in 1..MaxWords }

\* --------------------------------------------------- double arithmetic
\* Python evaluates (a / 1000) * w in IEEE-754 doubles and int() truncates.
\* For integers a, w >= 0 the result is computed here exactly:
\*   fl(a/1000) = (a*2^k + r) / (1000*2^k), k = 52 - E, 2^E <= a/1000 < 2^(E+1),
\*   where rem = a*2^k mod 1000 and r = -rem if rem < 500, else 1000 - rem
\*   (rem = 500 cannot happen: 8 divides 2^k);
\*   the product differs from a*w/1000 by w*r/(1000*2^k), far less than
\*   1/1000, so truncation can only go wrong when a*w/1000 is an integer n
\*   and the rounded product falls below n, i.e. when the product lies more
\*   than half a spacing of doubles below n.
RECURSIVE Pow2(_)
Pow2(n) == IF n <= 0 THEN 1 ELSE 2 * Pow2(n - 1)

RECURSIVE Pow2Mod1000(_)
Pow2Mod1000(k) == IF k <= 0 THEN 1 ELSE (2 * Pow2Mod1000(k - 1)) % 1000

RECURSIVE ILog2(_)
ILog2(n) == IF n < 2 THEN 0 ELSE 1 + ILog2(n \div 2)

\* the binary exponent E of a/1000 for a >= 1 (negative when a < 1000)
RECURSIVE BinExpNeg(_)
BinExpNeg(a) == IF a >= 1000 THEN 0 ELSE BinExpNeg(2 * a) - 1

BinExp(a) == IF a >= 1000 THEN ILog2(a \div 1000) ELSE BinExpNeg(a)

\* int((a / 1000) * w) as CPython computes it
FloatMulTrunc(a, w) ==
  IF a = 0 \/ w = 0 THEN 0
  ELSE IF (a * w) % 1000 # 0 THEN (a * w) \div 1000
  ELSE LET n == (a * w) \div 1000
           E == BinExp(a)
           rem == ((a % 1000) * Pow2Mod1000(52 - E)) % 1000
           f == ILog2(n)
           half == (IF n = Pow2(f) THEN 250 ELSE 500) * Pow2(f - E)
       IN IF rem = 0 \/ rem > 500 THEN n
          ELSE IF w * rem > half THEN n - 1 ELSE n

\* ------------------------------------------------------ frame sampler
\* the while loop of lines 75-78
RECURSIVE InteriorTimes(_, _, _)
InteriorTimes(current_time, end_time, sampling_interval) ==
  IF current_time < end_time
  THEN <<current_time>> \o
       InteriorTimes(current_time + sampling_interval, end_time, sampling_interval)
  ELSE << >>

InSeq(x, s) == \E i \in 1..Len(s) : s[i] = x

\* a variant of SampleTimes that appends end_time without looking it up
SampleTimesAlwaysEnd(begin_time, end_time, sampling_interval) ==
  Append(<<begin_time>> \o
           InteriorTimes(begin_time + sampling_interval, end_time, sampling_interval),
         end_time)

\* sample_times of one word, lines 72-82
SampleTimes(begin_time, end_time, sampling_interval) ==
  LET st == <<begin_time>> \o
            InteriorTimes(begin_time + sampling_interval, end_time, sampling_interval)
  IN IF InSeq(end_time, st) THEN st ELSE Append(st, end_time)

\* frame_number of one sample, lines 88-92
FrameNumber(sample_time, fps, total_frames) ==
  LET frame_number == FloatMulTrunc(sample_time, fps)
  IN IF frame_number >= total_frames THEN total_frames - 1 ELSE frame_number

\* the empty string as a path
NoPath == << >>

\* the file a sample is saved under, lines 100-101
FramePath(sample_time, word_text) == <<sample_time, word_text>>

\* ------------------------------------------------ coordinate transform
\* a variant of MakeObject that numbers the objects from 1
MakeObjectOneBased(i, description, point, label, image_width, image_height) ==
  [id |-> i + 1,
   description |-> description,
   point |-> point,
   label |-> label,
   pixel_coords |-> <<FloatMulTrunc(point[2], image_width),
                      FloatMulTrunc(point[1], image_height)>>,
   normalized_coords |-> <<point[2], point[1]>>]

\* one entry of objects, lines 155-178; normalized_coords holds the
\* numerators of point/1000
MakeObject(i, description, point, label, image_width, image_height) ==
  [id |-> i,
   description |-> description,
   point |-> point,
   label |-> label,
   pixel_coords |-> <<FloatMulTrunc(point[2], image_width),
                      FloatMulTrunc(point[1], image_height)>>,
   normalized_coords |-> <<point[2], point[1]>>]

\* ------------------------------------------------------------ the state
VARIABLES
  \* IntentLabelPipeline.process
  pc,                  \* position in process
  keep_extracted_files,
  sampling_interval,   \* config.sampling_interval
  temp_dir,            \* "none" (never created), "exists", "removed"
  started,             \* stages started so far, in order
  completed,           \* stages that ran to their end without failing
  raised,              \* an exception is propagating out of the try block
  extracted,           \* audio_path and video_path were produced
  words_list,
  result_data,
  last_image_path,
  video_description,
  object_descriptions,
  image,               \* the in-memory terminal frame and the markers drawn
  objects,
  preview,             \* pipeline_point_result.jpg on disk
  json_file,           \* output_file on disk: absent, partial or complete
  returned,            \* the record process returned, << >> otherwise
  \* split_video_by_words
  spc,                 \* position in split_video_by_words
  cap,                 \* the video handle: "none", "open", "released"
  fps,
  total_frames,
  wi,                  \* index of the word being processed
  sample_times,
  si,                  \* index of the next sample of the word
  image_paths,
  s_result_data,       \* result_data of split_video_by_words
  last_frame_path,
  sraise,              \* an exception is propagating out of its try block
  cap_pos,             \* the frame the handle was last positioned at
  sample_log,          \* per word: which samples were read and saved
  terminal_log,        \* how the read and save of the terminal frame went
  video_log,           \* what the call found: the video, the words, the frame count
  \* pure-function runs
  fn_in,
  fn_out,
  \* audio_to_words_with_timestamps
  apc,                 \* position in audio_to_words_with_timestamps
  mono_audio_file,     \* its local: NoPath for None, else the mono file's path
  temp_file,           \* the mkstemp file on disk: "absent", "exists", "removed"
  asr_calls,           \* number of recognition.call() so far
  a_result,            \* << >>, or the returned pair inside a tuple
  a_log,               \* which way the call went
  dashscope_api_key,   \* the module global dashscope.api_key
  \* extract_audio_and_video
  npc,                 \* position in extract_audio_and_video
  n_args,              \* its arguments
  n_result,            \* << >>, or the returned pair inside a tuple
  ffmpeg_log,          \* the ffmpeg runs so far and how each ended
  \* the batch worker pool
  wpc,                 \* per worker: position in process_single_video
  wvideo,              \* per worker: the video it was given
  writes,              \* pairs <<target, worker>>: who wrote what
  \* the while loop of split_video_by_words, one iteration at a time
  lpc,                 \* "idle", "entry", "while", "done"
  loop_word,           \* <<begin_time, end_time>>
  loop_interval,       \* sampling_interval
  loop_current,        \* current_time
  loop_times,          \* sample_times
  loop_tick,           \* parity of the number of iterations run
  \* /api/pipeline/start and run_batch_pipeline
  tpc,                 \* per task: "none", "no_task", "pool", "log", "ended"
  tstatus,             \* pipeline_tasks[task_id]['status']
  pending,             \* pending_videos of the task
  jpc,                 \* per task and video: position in process_single_video
  snapshot,            \* annotations as update_annotation_result loaded them
  annotations,         \* annotations.json: result_data per video
  processed_count,
  failed_count,
  results,             \* pipeline_tasks[task_id]['results']
  invoked              \* calls of pipeline.process per task and video

pvars == <<pc, keep_extracted_files, sampling_interval, temp_dir, started,
           completed, raised, extracted, words_list, result_data,
           last_image_path, video_description, object_descriptions, image,
           objects, preview, json_file, returned>>
svars == <<spc, cap, fps, total_frames, wi, sample_times, si, image_paths,
           s_result_data, last_frame_path, sraise, cap_pos, sample_log,
           terminal_log, video_log>>
fvars == <<fn_in, fn_out>>
avars == <<apc, mono_audio_file, temp_file, asr_calls, a_result, a_log,
           dashscope_api_key>>
nvars == <<npc, n_args, n_result, ffmpeg_log>>
wvars == <<wpc, wvideo, writes>>
lvars == <<lpc, loop_word, loop_interval, loop_current, loop_times, loop_tick>>
bvars == <<tpc, tstatus, pending, jpc, snapshot, annotations, processed_count,
           failed_count, results, invoked>>
yvars == <<lvars, bvars>>
xvars == <<avars, nvars, wvars, yvars>>
vars == <<pvars, svars, fvars, xvars>>

\* the workers of the pool
Workers == {1, 2}

\* a video file: its name without extension, and the extension
Video(stem, ext) == [stem |-> stem, ext |-> ext]

\* audio_to_words_with_timestamps is not running
InitAudio ==
  /\ apc = "idle"
  /\ mono_audio_file = NoPath
  /\ temp_file = "absent"
  /\ asr_calls = 0
  /\ a_result = << >>
  /\ a_log = "none"
  /\ dashscope_api_key = "unset"

\* extract_audio_and_video is not running
InitNormalizer ==
  /\ npc = "idle"
  /\ n_args = << >>
  /\ n_result = << >>
  /\ ffmpeg_log = << >>

\* the batch tasks a client can start, and the videos of the collection
Tasks == 1..MaxTasks

Videos == 1..MaxVideos

\* unified_server.py 56
MAX_WORKER_THREADS == 3

\* annotations.json after init_annotations_for_videos: an entry per video,
\* result_data None
NoResults == [v \in Videos |-> "null"]

\* no batch task was started
InitTasks ==
  /\ tpc = [t \in Tasks |-> "none"]
  /\ tstatus = [t \in Tasks |-> "none"]
  /\ pending = [t \in Tasks |-> {}]
  /\ jpc = [t \in Tasks |-> [v \in Videos |-> "none"]]
  /\ snapshot = [t \in Tasks |-> [v \in Videos |-> NoResults]]
  /\ annotations = NoResults
  /\ processed_count = [t \in Tasks |-> 0]
  /\ failed_count = [t \in Tasks |-> 0]
  /\ results = [t \in Tasks |-> << >>]
  /\ invoked = [t \in Tasks |-> [v \in Videos |-> 0]]

\* the while loop is not running
InitLoop ==
  /\ lpc = "idle"
  /\ loop_word = <<0, 1>>
  /\ loop_interval = 1
  /\ loop_current = 0
  /\ loop_times = << >>
  /\ loop_tick = 0

\* no batch is running
InitWorkers ==
  /\ wpc = [w \in Workers |-> "idle"]
  /\ wvideo = [w \in Workers |-> Video("a", "mp4")]
  /\ writes = {}

\* no image: before cv2.imread, or a file that was never written
NoImage == [loaded |-> FALSE, width |-> 0, height |-> 0, markers |-> << >>]

InitSampler ==
  /\ spc = "idle"
  /\ cap = "none"
  /\ fps = 0
  /\ total_frames = 0
  /\ wi = 0
  /\ sample_times = << >>
  /\ si = 0
  /\ image_paths = << >>
  /\ s_result_data = << >>
  /\ last_frame_path = NoPath
  /\ sraise = FALSE
  /\ cap_pos = 0
  /\ sample_log = << >>
  /\ terminal_log = "none"
  /\ video_log = "none"

InitProcess ==
  /\ pc = "Start"
  /\ keep_extracted_files \in BOOLEAN
  /\ sampling_interval \in Intervals
  /\ temp_dir = "none"
  /\ started = << >>
  /\ completed = << >>
  /\ raised = FALSE
  /\ extracted = FALSE
  /\ result_data = << >>
  /\ last_image_path = NoPath
  /\ video_description = "none"
  /\ object_descriptions = << >>
  /\ image = NoImage
  /\ objects = << >>
  /\ preview = NoImage
  /\ json_file = [state |-> "absent", data |-> << >>]
  /\ returned = << >>

Init ==
  /\ InitProcess
  /\ words_list = << >>
  /\ InitSampler
  /\ fn_in = << >>
  /\ fn_out = << >>
  /\ InitAudio
  /\ InitNormalizer
  /\ InitWorkers
  /\ InitLoop
  /\ InitTasks

\* ------------------------------------------- split_video_by_words, steps
\* lines 32-49: the early returns and the opening of the video
SEntry ==
  /\ spc = "entry"
  /\ \E video_exists \in BOOLEAN, opened \in BOOLEAN :
       IF ~video_exists \/ words_list = << >>
       THEN /\ spc' = "returned"
            /\ s_result_data' = << >>
            /\ last_frame_path' = NoPath
            /\ cap' = "none"
            /\ video_log' = IF ~video_exists THEN "missing" ELSE "no_words"
       ELSE IF ~opened
       THEN /\ spc' = "returned"
            /\ s_result_data' = << >>
            /\ last_frame_path' = NoPath
            /\ cap' = "none"
            /\ video_log' = "unopened"
       ELSE /\ spc' = "meta"
            /\ cap' = "open"
            /\ video_log' = "opened"
            /\ UNCHANGED <<s_result_data, last_frame_path>>
  /\ UNCHANGED <<fps, total_frames, wi, sample_times, si, image_paths, sraise,
                 cap_pos, sample_log, terminal_log>>
  /\ UNCHANGED <<pvars, fvars>>
  /\ UNCHANGED xvars

\* lines 52-61: fps, total_frames, duration_ms; total_frames / fps raises
\* ZeroDivisionError when fps is 0, before the try block is entered
SMeta ==
  /\ spc = "meta"
  /\ \E f \in FpsSet, n \in FrameCounts :
       /\ fps' = f
       /\ total_frames' = n
       /\ video_log' = IF n = 0 THEN "zero_frames" ELSE "frames"
       /\ IF f = 0
          THEN /\ spc' = "raised"
               /\ UNCHANGED <<wi, s_result_data>>
          ELSE /\ spc' = "word"
               /\ wi' = 1
               /\ s_result_data' = << >>
  /\ UNCHANGED <<cap, sample_times, si, image_paths, last_frame_path, sraise,
                 cap_pos, sample_log, terminal_log>>
  /\ UNCHANGED <<pvars, fvars>>
  /\ UNCHANGED xvars

\* lines 64-85: the next word of the for loop and its sample_times
SWord ==
  /\ spc = "word"
  /\ IF wi <= Len(words_list)
     THEN /\ sample_times' = SampleTimes(words_list[wi].begin_time,
                                         words_list[wi].end_time,
                                         sampling_interval)
          /\ image_paths' = << >>
          /\ si' = 1
          /\ sample_log' = Append(sample_log, << >>)
          /\ spc' = "sample"
     ELSE /\ spc' = "terminal"
          /\ UNCHANGED <<sample_times, image_paths, si, sample_log>>
  /\ UNCHANGED <<cap, fps, total_frames, wi, s_result_data, last_frame_path,
                 sraise, cap_pos, terminal_log, video_log>>
  /\ UNCHANGED <<pvars, fvars>>
  /\ UNCHANGED xvars

\* a variant of KeepPath that does not look at the results of read and
\* imwrite
KeepPathUnchecked(paths, saved, filepath) == Append(paths, filepath)

\* lines 98-111: the path joins image_paths only if the frame was read and
\* saved
KeepPath(paths, saved, filepath) ==
  IF saved THEN Append(paths, filepath) ELSE paths

\* a variant of AppendGroup that drops a group without frames
AppendGroupWithFrames(groups, word_data) ==
  IF word_data.paths = << >> THEN groups ELSE Append(groups, word_data)

\* line 119: result_data.append(word_data), whatever the group holds
AppendGroup(groups, word_data) == Append(groups, word_data)

\* lines 113-119: word_data of the current word
WordData(paths) ==
  [word |-> words_list[wi].text,
   timestamp |-> <<words_list[wi].begin_time, words_list[wi].end_time>>,
   paths |-> paths]

\* lines 86-119: one sample of the current word: seek, read, save; after the
\* last sample the word's group is appended to result_data
SSample ==
  /\ spc = "sample"
  /\ si <= Len(sample_times)
  /\ \E outcome \in {"ok", "readfail", "writefail", "raise"} :
       LET sample_time == sample_times[si]
           saved == outcome = "ok"
           paths == KeepPath(image_paths, saved,
                             FramePath(sample_time, words_list[wi].text))
       IN /\ cap_pos' = FrameNumber(sample_time, fps, total_frames)
          /\ IF outcome = "raise"
             THEN /\ sraise' = TRUE
                  /\ spc' = "finally"
                  /\ UNCHANGED <<image_paths, si, sample_log, s_result_data, wi>>
             ELSE /\ image_paths' = paths
                  /\ sample_log' = [sample_log EXCEPT ![wi] = Append(@, saved)]
                  /\ si' = si + 1
                  /\ sraise' = sraise
                  /\ IF si = Len(sample_times)
                     THEN /\ s_result_data' = AppendGroup(s_result_data,
                                                          WordData(paths))
                          /\ wi' = wi + 1
                          /\ spc' = "word"
                     ELSE /\ spc' = "sample"
                          /\ UNCHANGED <<s_result_data, wi>>
  /\ UNCHANGED <<cap, fps, total_frames, sample_times, last_frame_path,
                 terminal_log, video_log>>
  /\ UNCHANGED <<pvars, fvars>>
  /\ UNCHANGED xvars

\* line 130-131: the terminal frame's file, named after int(duration_ms)
TerminalPath == <<(total_frames * 1000) \div fps, "last">>

\* lines 121-141: the terminal frame
STerminal ==
  /\ spc = "terminal"
  /\ \E outcome \in {"ok", "readfail", "writefail", "raise"} :
       /\ cap_pos' = total_frames - 1
       /\ terminal_log' = outcome
       /\ IF outcome = "raise"
          THEN /\ sraise' = TRUE
               /\ UNCHANGED last_frame_path
          ELSE /\ sraise' = sraise
               /\ last_frame_path' = IF outcome = "ok" THEN TerminalPath ELSE NoPath
  /\ spc' = "finally"
  /\ UNCHANGED <<cap, fps, total_frames, wi, sample_times, si, image_paths,
                 s_result_data, sample_log, video_log>>
  /\ UNCHANGED <<pvars, fvars>>
  /\ UNCHANGED xvars

\* lines 143-146: cap.release() and the return
SFinally ==
  /\ spc = "finally"
  /\ cap' = "released"
  /\ spc' = IF sraise THEN "raised" ELSE "returned"
  /\ UNCHANGED <<fps, total_frames, wi, sample_times, si, image_paths,
                 s_result_data, last_frame_path, sraise, cap_pos, sample_log,
                 terminal_log, video_log>>
  /\ UNCHANGED <<pvars, fvars>>
  /\ UNCHANGED xvars

\* ------------------------------------------ IntentLabelPipeline.process
\* what audio_to_words_with_timestamps can return, audio_processor.py 57-110
AsrResults ==
  {<<FALSE, << >> >>, <<TRUE, << >> >>} \cup
  {<<TRUE, wl>> : wl \in AsrWordLists}

\* whether str.encode("utf-8") accepts the string
Encodable(label) == label # "surrogate"

\* the <description> matches of one response, in the order of the response:
\* description k is the k-th text of the response
DescriptionLists == { [i \in 1..n |-> i] : n \in 0..MaxDescs }

\* a variant of Raise that stays at the failed stage, which then runs again
RaiseAndRetry ==
  /\ raised' = raised
  /\ pc' = pc

\* an exception inside the try block: control goes to the finally clause
Raise ==
  /\ raised' = TRUE
  /\ pc' = "Finally"

\* lines 79-84: the directory extract_audio_and_video writes into
ExtractDir == IF keep_extracted_files THEN "output_dir" ELSE "temp_dir"

\* lines 63-84: output directory, input check, temporary directory
Begin ==
  /\ pc = "Start"
  /\ \E input_exists \in BOOLEAN :
       IF ~input_exists
       THEN /\ pc' = "Failed"
            /\ UNCHANGED temp_dir
       ELSE /\ pc' = "Normalize"
            /\ temp_dir' = IF keep_extracted_files THEN "none" ELSE "exists"
  /\ UNCHANGED <<keep_extracted_files, sampling_interval, started, completed,
                 raised, extracted, words_list, result_data, last_image_path,
                 video_description, object_descriptions, image, objects,
                 preview, json_file, returned>>
  /\ UNCHANGED <<svars, fvars>>
  /\ UNCHANGED xvars

\* lines 86-92: extract_audio_and_video and the check of its result; the
\* ValueError of line 92 is raised before the try block of line 94
Normalize ==
  /\ pc = "Normalize"
  /\ started' = Append(started, "Normalize")
  /\ \E ok \in BOOLEAN :
       IF ok
       THEN /\ extracted' = TRUE
            /\ completed' = Append(completed, "Normalize")
            /\ pc' = "Transcribe"
       ELSE /\ pc' = "Failed"
            /\ UNCHANGED <<extracted, completed>>
  /\ UNCHANGED <<keep_extracted_files, sampling_interval, temp_dir, raised,
                 words_list, result_data, last_image_path, video_description,
                 object_descriptions, image, objects, preview, json_file,
                 returned>>
  /\ UNCHANGED <<svars, fvars>>
  /\ UNCHANGED xvars

\* a variant of TranscribeFailed that looks at the success flag alone
TranscribeFailedLax(success, words) == ~success

\* line 102: if not success or not words_list
TranscribeFailed(success, words) == ~success \/ words = << >>

\* lines 95-105: speech recognition
Transcribe ==
  /\ pc = "Transcribe"
  /\ started' = Append(started, "Transcribe")
  /\ \E res \in AsrResults :
       IF TranscribeFailed(res[1], res[2])
       THEN /\ Raise
            /\ UNCHANGED <<words_list, completed>>
       ELSE /\ words_list' = res[2]
            /\ completed' = Append(completed, "Transcribe")
            /\ raised' = raised
            /\ pc' = "Sample"
  /\ UNCHANGED <<keep_extracted_files, sampling_interval, temp_dir, extracted,
                 result_data, last_image_path, video_description,
                 object_descriptions, image, objects, preview, json_file,
                 returned>>
  /\ UNCHANGED <<svars, fvars>>
  /\ UNCHANGED xvars

\* lines 108-121: the video file check and the call of split_video_by_words
CallSplit ==
  /\ pc = "Sample"
  /\ started' = Append(started, "Sample")
  /\ \E video_exists \in BOOLEAN :
       IF ~video_exists
       THEN /\ Raise
            /\ UNCHANGED spc
       ELSE /\ pc' = "Sampling"
            /\ spc' = "entry"
            /\ raised' = raised
  /\ UNCHANGED <<keep_extracted_files, sampling_interval, temp_dir, completed,
                 extracted, words_list, result_data, last_image_path,
                 video_description, object_descriptions, image, objects,
                 preview, json_file, returned>>
  /\ UNCHANGED <<cap, fps, total_frames, wi, sample_times, si, image_paths,
                 s_result_data, last_frame_path, sraise, cap_pos, sample_log,
                 terminal_log, video_log>>
  /\ UNCHANGED fvars
  /\ UNCHANGED xvars

\* the call is over: the locals of split_video_by_words are gone; the
\* handle stays as the call left it
ReturnFromSplit ==
  /\ spc' = "idle"
  /\ fps' = 0
  /\ total_frames' = 0
  /\ wi' = 0
  /\ sample_times' = << >>
  /\ si' = 0
  /\ image_paths' = << >>
  /\ s_result_data' = << >>
  /\ last_frame_path' = NoPath
  /\ sraise' = FALSE
  /\ cap_pos' = 0
  /\ sample_log' = << >>

\* a variant of SampleFailed without the check of the terminal frame path
SampleFailedLax(frame_groups, terminal_frame_path) == frame_groups = << >>

\* lines 123-127: the two checks of the result of split_video_by_words
SampleFailed(frame_groups, terminal_frame_path) ==
  frame_groups = << >> \/ terminal_frame_path = NoPath

\* lines 116-130: the result of split_video_by_words is bound, then checked
SampleCheck ==
  /\ pc = "Sampling"
  /\ spc \in {"returned", "raised"}
  /\ IF spc = "raised"
     THEN /\ Raise
          /\ UNCHANGED <<result_data, last_image_path, completed>>
     ELSE /\ result_data' = s_result_data
          /\ last_image_path' = last_frame_path
          /\ IF SampleFailed(s_result_data, last_frame_path)
             THEN /\ Raise
                  /\ UNCHANGED completed
             ELSE /\ completed' = Append(completed, "Sample")
                  /\ raised' = raised
                  /\ pc' = "Describe"
  /\ ReturnFromSplit
  /\ UNCHANGED <<keep_extracted_files, sampling_interval, temp_dir, started,
                 extracted, words_list, video_description, object_descriptions,
                 image, objects, preview, json_file, returned>>
  /\ UNCHANGED <<cap, terminal_log, video_log, fvars>>
  /\ UNCHANGED xvars

\* lines 133-135: analyze_video_intent
Describe ==
  /\ pc = "Describe"
  /\ started' = Append(started, "Describe")
  /\ \E ok \in BOOLEAN :
       IF ok
       THEN /\ video_description' = "description"
            /\ completed' = Append(completed, "Describe")
            /\ raised' = raised
            /\ pc' = "ExtractObjects"
       ELSE /\ Raise
            /\ UNCHANGED <<video_description, completed>>
  /\ UNCHANGED <<keep_extracted_files, sampling_interval, temp_dir, extracted,
                 words_list, result_data, last_image_path, object_descriptions,
                 image, objects, preview, json_file, returned>>
  /\ UNCHANGED <<svars, fvars>>
  /\ UNCHANGED xvars

\* lines 138-140: extract_object_descriptions, every <description> match
ExtractObjects ==
  /\ pc = "ExtractObjects"
  /\ started' = Append(started, "ExtractObjects")
  /\ \E ok \in BOOLEAN, descriptions \in DescriptionLists :
       IF ok
       THEN /\ object_descriptions' = descriptions
            /\ completed' = Append(completed, "ExtractObjects")
            /\ raised' = raised
            /\ pc' = "LoadImage"
       ELSE /\ Raise
            /\ UNCHANGED <<object_descriptions, completed>>
  /\ UNCHANGED <<keep_extracted_files, sampling_interval, temp_dir, extracted,
                 words_list, result_data, last_image_path, video_description,
                 image, objects, preview, json_file, returned>>
  /\ UNCHANGED <<svars, fvars>>
  /\ UNCHANGED xvars

\* lines 144-149: cv2.imread of the terminal frame, its size, objects = []
LoadImage ==
  /\ pc = "LoadImage"
  /\ \E readable \in BOOLEAN, size \in ImageSizes :
       IF readable
       THEN /\ image' = [loaded |-> TRUE, width |-> size[1], height |-> size[2],
                         markers |-> << >>]
            /\ objects' = << >>
            /\ raised' = raised
            /\ pc' = IF object_descriptions = << >> THEN "Render"
                     ELSE "LocateObject"
       ELSE /\ Raise
            /\ UNCHANGED <<image, objects>>
  /\ UNCHANGED <<keep_extracted_files, sampling_interval, temp_dir, started,
                 completed, extracted, words_list, result_data, last_image_path,
                 video_description, object_descriptions, preview, json_file,
                 returned>>
  /\ UNCHANGED <<svars, fvars>>
  /\ UNCHANGED xvars

\* lines 151-178: one iteration of the loop over object_descriptions:
\* locate_object_in_image, the coordinate transform, the marker, the append
LocateObject ==
  /\ pc = "LocateObject"
  /\ Len(objects) < Len(object_descriptions)
  /\ started' = Append(started, "LocateObject")
  /\ \E ok \in BOOLEAN, point_data \in LocateResponses :
       IF ok
       THEN LET i == Len(objects)
                obj == MakeObject(i, object_descriptions[i + 1],
                                  point_data.point, point_data.label,
                                  image.width, image.height)
            IN /\ objects' = Append(objects, obj)
               /\ image' = [image EXCEPT !.markers = Append(@, obj.pixel_coords)]
               /\ completed' = Append(completed, "LocateObject")
               /\ raised' = raised
               /\ pc' = IF i + 1 = Len(object_descriptions) THEN "Render"
                        ELSE "LocateObject"
       ELSE /\ Raise
            /\ UNCHANGED <<objects, image, completed>>
  /\ UNCHANGED <<keep_extracted_files, sampling_interval, temp_dir, extracted,
                 words_list, result_data, last_image_path, video_description,
                 object_descriptions, preview, json_file, returned>>
  /\ UNCHANGED <<svars, fvars>>
  /\ UNCHANGED xvars

\* lines 181-183: cv2.imwrite of the marked image; its result is not looked at
Render ==
  /\ pc = "Render"
  /\ started' = Append(started, "Render")
  /\ completed' = Append(completed, "Render")
  /\ \E written \in BOOLEAN :
       preview' = IF written THEN image ELSE preview
  /\ pc' = "Persist"
  /\ UNCHANGED <<keep_extracted_files, sampling_interval, temp_dir, raised,
                 extracted, words_list, result_data, last_image_path,
                 video_description, object_descriptions, image, objects,
                 json_file, returned>>
  /\ UNCHANGED <<svars, fvars>>
  /\ UNCHANGED xvars

\* lines 201-214: pipeline_data
PipelineData ==
  [video_path |-> <<ExtractDir, "video.mp4">>,
   audio_path |-> <<ExtractDir, "audio.mp3">>,
   last_image_path |-> last_image_path,
   video_description |-> video_description,
   result_data |-> result_data,
   objects |-> objects,
   image_dimensions |-> <<image.width, image.height>>]

\* lines 217-222: open(output_file, "w") and json.dump with
\* ensure_ascii=False into a UTF-8 file, then the return. json.dump writes
\* the record piece by piece and raises UnicodeEncodeError at the first
\* string UTF-8 cannot encode, after the pieces before it were written.
Persist ==
  /\ pc = "Persist"
  /\ started' = Append(started, "Persist")
  /\ \E opened \in BOOLEAN :
       IF ~opened
       THEN /\ Raise
            /\ UNCHANGED <<json_file, returned, completed>>
       ELSE IF \A i \in 1..Len(objects) : Encodable(objects[i].label)
       THEN /\ json_file' = [state |-> "complete", data |-> <<PipelineData>>]
            /\ returned' = <<PipelineData>>
            /\ completed' = Append(completed, "Persist")
            /\ raised' = raised
            /\ pc' = "Finally"
       ELSE /\ json_file' = [state |-> "partial", data |-> << >>]
            /\ Raise
            /\ UNCHANGED <<returned, completed>>
  /\ UNCHANGED <<keep_extracted_files, sampling_interval, temp_dir, extracted,
                 words_list, result_data, last_image_path, video_description,
                 object_descriptions, image, objects, preview>>
  /\ UNCHANGED <<svars, fvars>>
  /\ UNCHANGED xvars

\* lines 224-231: the finally clause; a failing rmtree is printed and dropped
Finally ==
  /\ pc = "Finally"
  /\ \E removed \in BOOLEAN :
       temp_dir' = IF temp_dir = "exists" /\ removed THEN "removed" ELSE temp_dir
  /\ pc' = IF raised THEN "Failed" ELSE "Done"
  /\ UNCHANGED <<keep_extracted_files, sampling_interval, started, completed,
                 raised, extracted, words_list, result_data, last_image_path,
                 video_description, object_descriptions, image, objects,
                 preview, json_file, returned>>
  /\ UNCHANGED <<svars, fvars>>
  /\ UNCHANGED xvars

Next ==
  \/ Begin \/ Normalize \/ Transcribe \/ CallSplit
  \/ SEntry \/ SMeta \/ SWord \/ SSample \/ STerminal \/ SFinally
  \/ SampleCheck \/ Describe \/ ExtractObjects \/ LoadImage \/ LocateObject
  \/ Render \/ Persist \/ Finally

Spec == Init /\ [][Next]_vars

\* ------------------------------------ split_video_by_words called alone
\* data_label_gen_pipeline.py exports split_video_by_words: a caller passes
\* any word list, the empty one included
InitDirect ==
  /\ InitProcess
  /\ pc = "Start"
  /\ ~keep_extracted_files
  /\ words_list \in AllWordLists
  /\ spc = "entry"
  /\ cap = "none"
  /\ fps = 0
  /\ total_frames = 0
  /\ wi = 0
  /\ sample_times = << >>
  /\ si = 0
  /\ image_paths = << >>
  /\ s_result_data = << >>
  /\ last_frame_path = NoPath
  /\ sraise = FALSE
  /\ cap_pos = 0
  /\ sample_log = << >>
  /\ terminal_log = "none"
  /\ video_log = "none"
  /\ fn_in = << >>
  /\ fn_out = << >>
  /\ InitAudio
  /\ InitNormalizer
  /\ InitWorkers
  /\ InitLoop
  /\ InitTasks

NextSampler == SEntry \/ SMeta \/ SWord \/ SSample \/ STerminal \/ SFinally

SpecSampler == InitDirect /\ [][NextSampler]_vars

\* ------------------------------------------------ pure-function runs
\* process, split_video_by_words and the pure runs at rest, and every other
\* function but the one named
AtRestBut(running) ==
  /\ InitProcess
  /\ ~keep_extracted_files
  /\ sampling_interval = 100
  /\ words_list = << >>
  /\ InitSampler
  /\ fn_in = << >>
  /\ fn_out = << >>
  /\ running # "audio" => InitAudio
  /\ running # "normalizer" => InitNormalizer
  /\ running # "workers" => InitWorkers
  /\ running # "loop" => InitLoop
  /\ running # "tasks" => InitTasks

\* everything at rest and a pure function about to be applied to an input
AtRestInputs(inputs) ==
  /\ InitProcess
  /\ ~keep_extracted_files
  /\ sampling_interval = 100
  /\ words_list = << >>
  /\ InitSampler
  /\ InitAudio
  /\ InitNormalizer
  /\ InitWorkers
  /\ InitLoop
  /\ InitTasks
  /\ fn_in \in inputs
  /\ fn_out = << >>

\* process and split_video_by_words at rest
AtRest ==
  /\ InitProcess
  /\ ~keep_extracted_files
  /\ sampling_interval = 100
  /\ words_list = << >>
  /\ InitSampler
  /\ InitAudio
  /\ InitNormalizer
  /\ InitWorkers
  /\ InitLoop
  /\ InitTasks

\* begin_time, end_time, sampling_interval of one word
TimesInputs ==
  {<<b, e, i>> \in (0..MaxSpan) \X (0..MaxSpan) \X (1..MaxInterval) : b <= e}
    \cup {<<1000, 2200, 300>>, <<500, 500, 300>>, <<0, 900, 300>>}

\* sample_time, fps, total_frames of one sample
FrameInputs ==
  {k * 100 : k \in 0..MaxFrameTick} \X {24, 25, 30} \X {0, 1, 90, 200}

\* point [y, x] of the model and width, height of the terminal frame
CoordInputs ==
  ({0, 175, 290, 500, 750, 1000} \X {0, 175, 290, 500, 750, 1000})
    \X {<<1920, 1080>>, <<720, 480>>, <<100, 50>>}

\* lines 72-82 on one word
ApplySampleTimes ==
  /\ fn_out = << >>
  /\ fn_out' = <<SampleTimes(fn_in[1], fn_in[2], fn_in[3])>>
  /\ UNCHANGED <<pvars, svars, fn_in>>
  /\ UNCHANGED xvars

\* lines 88-92 on one sample
ApplyFrameNumber ==
  /\ fn_out = << >>
  /\ fn_out' = <<FrameNumber(fn_in[1], fn_in[2], fn_in[3])>>
  /\ UNCHANGED <<pvars, svars, fn_in>>
  /\ UNCHANGED xvars

\* lines 155-178 on one response of the localization model
ApplyMakeObject ==
  /\ fn_out = << >>
  /\ fn_out' = <<MakeObject(0, 1, fn_in[1], "cup", fn_in[2][1], fn_in[2][2])>>
  /\ UNCHANGED <<pvars, svars, fn_in>>
  /\ UNCHANGED xvars

InitTimes == AtRest /\ fn_in \in TimesInputs /\ fn_out = << >>

SpecTimes == InitTimes /\ [][ApplySampleTimes]_vars

InitFrame == AtRest /\ fn_in \in FrameInputs /\ fn_out = << >>

SpecFrame == InitFrame /\ [][ApplyFrameNumber]_vars

InitCoords == AtRest /\ fn_in \in CoordInputs /\ fn_out = << >>

SpecCoords == InitCoords /\ [][ApplyMakeObject]_vars

\* ----------------------------------- audio_to_words_with_timestamps alone
\* the words array of the first recognized sentence, the empty one included
SentenceWordLists == UNION { WordLists(n, 0, {"a"}, Times) : n \in 0..MaxWords }

\* what result.get_sentence() hands back when the status is OK: nothing, a
\* first sentence without a "words" key, or a first sentence with its words
Sentences ==
  {[kind |-> "none", words |-> << >>], [kind |-> "no_words_key", words |-> << >>]}
    \cup {[kind |-> "words", words |-> wl] : wl \in SentenceWordLists}

\* what the try block can raise
AudioExceptions == {"ConnectionError", "KeyError"}

\* a variant of AudioHandler that catches connection errors only
AudioHandlerNarrow(exc) == IF exc = "ConnectionError" THEN "except" ELSE "raise"

\* line 108: except Exception catches whatever the try block raised
AudioHandler(exc) == "except"

\* lines 92-103: the pair returned for a sentence list of an OK response
SentenceResult(sentence) ==
  IF sentence.kind = "words" THEN <<TRUE, sentence.words>> ELSE <<FALSE, << >> >>

\* lines 57-66: the input check and the ASR credential
AEntry ==
  /\ apc = "entry"
  /\ \E audio_exists \in BOOLEAN, api_key \in {"", "key"} :
       IF ~audio_exists
       THEN /\ a_result' = << <<FALSE, << >> >> >>
            /\ a_log' = "missing"
            /\ apc' = "finally"
            /\ UNCHANGED dashscope_api_key
       ELSE /\ dashscope_api_key' = IF api_key # "" THEN api_key
                                    ELSE dashscope_api_key
            /\ apc' = "convert"
            /\ UNCHANGED <<a_result, a_log>>
  /\ UNCHANGED <<mono_audio_file, temp_file, asr_calls>>
  /\ UNCHANGED <<pvars, svars, fvars, nvars, wvars, yvars>>

\* lines 69-72 with convert_to_mono, lines 26-39: from_file, mkstemp and
\* export; whatever raises, convert_to_mono prints it and returns None,
\* and the file mkstemp created stays where it is
AConvert ==
  /\ apc = "convert"
  /\ \E outcome \in {"load_fails", "mkstemp_fails", "export_fails", "ok"} :
       /\ temp_file' = IF outcome \in {"export_fails", "ok"} THEN "exists"
                       ELSE temp_file
       /\ IF outcome = "ok"
          THEN /\ mono_audio_file' = <<"mono">>
               /\ apc' = "recognize"
               /\ UNCHANGED <<a_result, a_log>>
          ELSE /\ mono_audio_file' = NoPath
               /\ a_result' = << <<FALSE, << >> >> >>
               /\ a_log' = "convert_failed"
               /\ apc' = "finally"
  /\ UNCHANGED <<asr_calls, dashscope_api_key>>
  /\ UNCHANGED <<pvars, svars, fvars, nvars, wvars, yvars>>

\* lines 77-106: the Recognition object, recognition.call, the status and
\* the first sentence
ARecognize ==
  /\ apc = "recognize"
  /\ \E outcome \in {"ctor_throws", "call_throws", "not_ok", "read_throws", "ok"},
        exc \in AudioExceptions, sentence \in Sentences :
       /\ asr_calls' = IF outcome = "ctor_throws" THEN asr_calls ELSE asr_calls + 1
       /\ IF outcome \in {"ctor_throws", "call_throws", "read_throws"}
          THEN /\ apc' = AudioHandler(exc)
               /\ a_log' = "throws"
               /\ UNCHANGED a_result
          ELSE IF outcome = "not_ok"
          THEN /\ a_result' = << <<FALSE, << >> >> >>
               /\ a_log' = "not_ok"
               /\ apc' = "finally"
          ELSE /\ a_result' = <<SentenceResult(sentence)>>
               /\ a_log' = "ok"
               /\ apc' = "finally"
  /\ UNCHANGED <<mono_audio_file, temp_file, dashscope_api_key>>
  /\ UNCHANGED <<pvars, svars, fvars, nvars, wvars, yvars>>

\* lines 108-110: the except clause
AExcept ==
  /\ apc = "except"
  /\ a_result' = << <<FALSE, << >> >> >>
  /\ apc' = "finally"
  /\ UNCHANGED <<mono_audio_file, temp_file, asr_calls, a_log, dashscope_api_key>>
  /\ UNCHANGED <<pvars, svars, fvars, nvars, wvars, yvars>>

\* lines 112-119: the finally clause removes the file mono_audio_file names,
\* a failing os.remove is printed and dropped; then the return, or the
\* exception the except clause did not catch
AFinally ==
  /\ apc \in {"finally", "raise"}
  /\ \E removed \in BOOLEAN :
       temp_file' = IF mono_audio_file # NoPath /\ temp_file = "exists" /\ removed
                    THEN "removed" ELSE temp_file
  /\ apc' = IF apc = "raise" THEN "raised" ELSE "returned"
  /\ UNCHANGED <<mono_audio_file, asr_calls, a_result, a_log, dashscope_api_key>>
  /\ UNCHANGED <<pvars, svars, fvars, nvars, wvars, yvars>>

InitAudioCall ==
  /\ AtRestBut("audio")
  /\ apc = "entry"
  /\ mono_audio_file = NoPath
  /\ temp_file = "absent"
  /\ asr_calls = 0
  /\ a_result = << >>
  /\ a_log = "none"
  /\ dashscope_api_key \in {"unset", "other"}

NextAudio == AEntry \/ AConvert \/ ARecognize \/ AExcept \/ AFinally

SpecAudio == InitAudioCall /\ [][NextAudio]_vars

\* ------------------------------------------ extract_audio_and_video alone
\* the arguments: the input video, and output_dir, audio_filename and
\* video_filename, each << >> for None or a one-element tuple
NormalizerArgs ==
  [input : {[dir |-> "", name |-> Video("clip", "mov")],
            [dir |-> "in", name |-> Video("clip", "mp4")]},
   output_dir : {<< >>, <<"out">>},
   audio_filename : {<< >>, <<Video("a", "mp3")>>},
   video_filename : {<< >>, <<Video("v", "mp4")>>}]

\* lines 36-37: the output directory
OutputDir(args) ==
  IF args.output_dir # << >> THEN args.output_dir[1]
  ELSE IF args.input.dir # "" THEN args.input.dir ELSE "."

\* lines 43-51: the two output paths
AudioPath(args) ==
  <<OutputDir(args),
    IF args.audio_filename # << >> THEN args.audio_filename[1]
    ELSE Video(args.input.name.stem, "mp3")>>

VideoPath(args) ==
  <<OutputDir(args),
    IF args.video_filename # << >> THEN args.video_filename[1]
    ELSE Video(args.input.name.stem, "mp4")>>

\* the pair (None, None)
NonePair == <<NoPath, NoPath>>

\* how one subprocess.run of ffmpeg can end, lines 80-90
FfmpegOutcomes == {"ok", "CalledProcessError", "FileNotFoundError", "Exception"}

\* lines 31-51: the input check, os.makedirs(output_dir, exist_ok=True)
\* and the output names; makedirs is outside the try block of line 53
NEntry ==
  /\ npc = "entry"
  /\ \E input_exists \in BOOLEAN, dir_made \in BOOLEAN :
       IF ~input_exists
       THEN /\ n_result' = <<NonePair>>
            /\ npc' = "returned"
       ELSE IF ~dir_made
       THEN /\ npc' = "raised"
            /\ UNCHANGED n_result
       ELSE /\ npc' = "audio"
            /\ UNCHANGED n_result
  /\ UNCHANGED <<n_args, ffmpeg_log>>
  /\ UNCHANGED <<pvars, svars, fvars, avars, wvars, yvars>>

\* lines 53-65 and 80-90: ffmpeg extracts the audio track
NAudio ==
  /\ npc = "audio"
  /\ \E outcome \in FfmpegOutcomes :
       /\ ffmpeg_log' = Append(ffmpeg_log, <<"audio", outcome>>)
       /\ IF outcome = "ok"
          THEN /\ npc' = "video"
               /\ UNCHANGED n_result
          ELSE /\ n_result' = <<NonePair>>
               /\ npc' = "returned"
  /\ UNCHANGED n_args
  /\ UNCHANGED <<pvars, svars, fvars, avars, wvars, yvars>>

\* lines 67-78 and 80-90: ffmpeg copies the video stream
NVideo ==
  /\ npc = "video"
  /\ \E outcome \in FfmpegOutcomes :
       /\ ffmpeg_log' = Append(ffmpeg_log, <<"video", outcome>>)
       /\ n_result' = IF outcome = "ok"
                      THEN << <<AudioPath(n_args), VideoPath(n_args)>> >>
                      ELSE <<NonePair>>
       /\ npc' = "returned"
  /\ UNCHANGED n_args
  /\ UNCHANGED <<pvars, svars, fvars, avars, wvars, yvars>>

InitNormalizerCall ==
  /\ AtRestBut("normalizer")
  /\ npc = "entry"
  /\ n_args \in NormalizerArgs
  /\ n_result = << >>
  /\ ffmpeg_log = << >>

NextNormalizer == NEntry \/ NAudio \/ NVideo

SpecNormalizer == InitNormalizerCall /\ [][NextNormalizer]_vars

\* ------------------------------------------------ the batch worker pool
\* run_batch_pipeline hands every pending video of one collection folder to
\* process_single_video on a thread of the pool; each call builds its own
\* Config and IntentLabelPipeline and runs process.
\* the files of the collection folder: different files, two of them with
\* the same name up to the extension
CollectionVideos == {Video("a", "mp4"), Video("b", "mp4"), Video("a", "mov")}

\* unified_server.py 960-966: temp_output_file of a video
TempOutputFile(video) == <<"collection", video.stem, "_temp_pipeline_data.json">>

\* pipeline.py 66, 181: output_dir is the directory of output_file, the
\* preview is pipeline_point_result.jpg in it
ResultImagePath(video) == <<"collection", "pipeline_point_result.jpg", "">>

\* pipeline.py 113-114: frames_output_dir, named after the extracted video,
\* which video_preprocessor.py 43-48 names after the input
FramesOutputDir(video) == <<"output_frames", video.stem, "">>

\* pipeline.py 81: tempfile.mkdtemp() gives every call a directory of its own
TempDirOf(w) == <<"tmp", "worker", ToString(w)>>

\* audio_processor.py 66: the attribute api_key of the module dashscope
ApiKeyGlobal == <<"dashscope", "api_key", "">>

\* worker w writes a target and goes on to the next stage, or the stage fails
WStep(w, to, target) ==
  /\ writes' = writes \cup {<<target, w>>}
  /\ \E ok \in BOOLEAN : wpc' = [wpc EXCEPT ![w] = IF ok THEN to ELSE "failed"]
  /\ UNCHANGED wvideo
  /\ UNCHANGED <<pvars, svars, fvars, avars, nvars, yvars>>

\* pipeline.py 79-92: the extraction into the temporary directory
WNormalize ==
  \E w \in Workers :
    /\ wpc[w] = "Normalize"
    /\ WStep(w, "Transcribe", TempDirOf(w))

\* pipeline.py 97-100, audio_processor.py 64-66: config.dashscope_api_key is
\* never empty, so every call assigns dashscope.api_key
WTranscribe ==
  \E w \in Workers :
    /\ wpc[w] = "Transcribe"
    /\ WStep(w, "Sample", ApiKeyGlobal)

\* pipeline.py 112-121: the frames
WSample ==
  \E w \in Workers :
    /\ wpc[w] = "Sample"
    /\ WStep(w, "Render", FramesOutputDir(wvideo[w]))

\* pipeline.py 134-183: the model calls write nothing; then the preview
WRender ==
  \E w \in Workers :
    /\ wpc[w] = "Render"
    /\ WStep(w, "Persist", ResultImagePath(wvideo[w]))

\* pipeline.py 217-218: the record
WPersist ==
  \E w \in Workers :
    /\ wpc[w] = "Persist"
    /\ WStep(w, "done", TempOutputFile(wvideo[w]))

InitBatch ==
  /\ AtRestBut("workers")
  /\ wpc = [w \in Workers |-> "Normalize"]
  /\ wvideo \in {f \in [Workers -> CollectionVideos] : f[1] # f[2]}
  /\ writes = {}

NextWorkers == WNormalize \/ WTranscribe \/ WSample \/ WRender \/ WPersist

SpecWorkers == InitBatch /\ [][NextWorkers]_vars

\* ------------------------------------- _build_video_analysis_message alone
\* frame files a group can name
MessagePaths == {FramePath(0, "a"), FramePath(100, "a")}

\* the path lists of a group
MessagePathLists ==
  {<< >>} \cup {<<p>> : p \in MessagePaths}
    \cup {<<p, q>> : p \in MessagePaths, q \in MessagePaths}

\* frame groups as analyze_video_intent receives them
MessageGroups ==
  [word : {"a", "b"}, timestamp : {<<0, 100>>}, paths : MessagePathLists]

RECURSIVE GroupLists(_)
GroupLists(n) ==
  IF n = 0 THEN {<< >>}
  ELSE {Append(gl, g) : gl \in GroupLists(n - 1), g \in MessageGroups}

\* result_data, and what is on disk under each path when the message is built
MessageInputs ==
  (UNION {GroupLists(n) : n \in 0..MaxWords})
    \X [MessagePaths -> {"jpeg", "empty", "missing"}]

\* image_utils.py 16-21: the base64 text of the file, "" for an empty file,
\* None when open or read raises; << >> stands for both "" and None
ImageToBase64(image_path, files) ==
  IF files[image_path] = "jpeg" THEN <<image_path>> ELSE << >>

\* llm_client.py 173-179: the image entries of one group
RECURSIVE ImageEntries(_, _)
ImageEntries(paths, files) ==
  IF paths = << >> THEN << >>
  ELSE LET base64_image == ImageToBase64(Head(paths), files)
       IN (IF base64_image # << >>
           THEN <<[type |-> "image_url", value |-> base64_image[1]]>>
           ELSE << >>)
          \o ImageEntries(Tail(paths), files)

\* llm_client.py 160-181: the system message, then one user message per
\* item of result_data; the text entry stands for "\n" + word + ":"
RECURSIVE UserMessages(_, _)
UserMessages(groups, files) ==
  IF groups = << >> THEN << >>
  ELSE <<[role |-> "user",
          content |-> <<[type |-> "text", value |-> Head(groups).word]>>
                        \o ImageEntries(Head(groups).paths, files)]>>
       \o UserMessages(Tail(groups), files)

BuildVideoAnalysisMessage(groups, files) ==
  <<[role |-> "system", content |-> << >>]>> \o UserMessages(groups, files)

ApplyBuildMessage ==
  /\ fn_out = << >>
  /\ fn_out' = <<BuildVideoAnalysisMessage(fn_in[1], fn_in[2])>>
  /\ UNCHANGED <<pvars, svars, fn_in, xvars>>

InitMessage == AtRestInputs(MessageInputs)

SpecMessage == InitMessage /\ [][ApplyBuildMessage]_vars

\* ----------------------------------------------------- convert_to_mono alone
\* settings.py 32-34
AUDIO_SAMPLE_RATE == 16000

AUDIO_CHANNELS == 1

\* (channels, frame rate) of the audio files handed to convert_to_mono
MonoInputs ==
  (1..6) \X {8000, 11025, 16000, 22050, 24000, 32000, 44100, 48000}

\* convert_to_mono returned None (audio_processor.py 37-39)
NoAudio == <<0, 0>>

\* pydub AudioSegment.set_channels / set_frame_rate on the metadata
SetChannels(audio, channels) == <<channels, audio[2]>>

SetFrameRate(audio, frame_rate) == <<audio[1], frame_rate>>

\* audio_processor.py 27-29: the segment that is exported; the variant
\* leaves the frame rate of the input alone
ConvertToMonoKeepRate(audio) == SetChannels(audio, AUDIO_CHANNELS)

ConvertToMono(audio) ==
  SetFrameRate(SetChannels(audio, AUDIO_CHANNELS), AUDIO_SAMPLE_RATE)

\* audio_processor.py 26-39: load, convert, export; any exception gives None
ApplyConvertToMono ==
  /\ fn_out = << >>
  /\ \E ok \in BOOLEAN :
       fn_out' = <<IF ok THEN ConvertToMono(fn_in) ELSE NoAudio>>
  /\ UNCHANGED <<pvars, svars, fn_in, xvars>>

\* convert_to_mono applied to the file the first call exported
ApplyConvertAgain ==
  /\ Len(fn_out) = 1
  /\ fn_out[1] # NoAudio
  /\ \E ok \in BOOLEAN :
       fn_out' = Append(fn_out, IF ok THEN ConvertToMono(fn_out[1]) ELSE NoAudio)
  /\ UNCHANGED <<pvars, svars, fn_in, xvars>>

InitMono == AtRestInputs(MonoInputs)

NextMono == ApplyConvertToMono \/ ApplyConvertAgain

SpecMono == InitMono /\ [][NextMono]_vars

\* --------------------- lines 72-82 of split_video_by_words, step by step
\* one word with begin_time < end_time and a sampling_interval as Config
\* stores it: any integer, settings.py 64 and 123 check nothing
LoopInputs ==
  {<<b, e, i>> \in (0..MaxSpan) \X (0..MaxSpan) \X ((0 - MaxInterval)..MaxInterval) :
     b < e}

\* Python integers and lists are unbounded. The state keeps current_time
\* down to LoopFloor, which is below every begin_time and so leaves the
\* outcome of current_time < end_time as it is, and the first LoopCap
\* entries of sample_times, which no terminating run reaches.
LoopFloor == 0 - (MaxInterval + 1)

LoopCap == MaxSpan + 2

\* lines 72-75
LoopEntry ==
  /\ lpc = "entry"
  /\ loop_times' = <<loop_word[1]>>
  /\ loop_current' = loop_word[1] + loop_interval
  /\ lpc' = "while"
  /\ UNCHANGED <<loop_word, loop_interval, loop_tick>>
  /\ UNCHANGED <<pvars, svars, fvars, avars, nvars, wvars, bvars>>

\* lines 76-78: one iteration of the while loop
LoopStep ==
  /\ lpc = "while"
  /\ loop_current < loop_word[2]
  /\ loop_times' = IF Len(loop_times) < LoopCap
                   THEN Append(loop_times, loop_current)
                   ELSE loop_times
  /\ loop_current' = IF loop_current + loop_interval < LoopFloor
                     THEN LoopFloor
                     ELSE loop_current + loop_interval
  /\ loop_tick' = 1 - loop_tick
  /\ UNCHANGED <<lpc, loop_word, loop_interval>>
  /\ UNCHANGED <<pvars, svars, fvars, avars, nvars, wvars, bvars>>

\* lines 76, 81-82: the loop condition fails, end_time is appended if absent
LoopExit ==
  /\ lpc = "while"
  /\ ~(loop_current < loop_word[2])
  /\ loop_times' = IF InSeq(loop_word[2], loop_times) THEN loop_times
                   ELSE Append(loop_times, loop_word[2])
  /\ lpc' = "done"
  /\ UNCHANGED <<loop_word, loop_interval, loop_current, loop_tick>>
  /\ UNCHANGED <<pvars, svars, fvars, avars, nvars, wvars, bvars>>

InitLoopCall ==
  /\ AtRestBut("loop")
  /\ lpc = "entry"
  /\ \E inp \in LoopInputs :
       /\ loop_word = <<inp[1], inp[2]>>
       /\ loop_interval = inp[3]
  /\ loop_current = 0
  /\ loop_times = << >>
  /\ loop_tick = 0

NextLoop == LoopEntry \/ LoopStep \/ LoopExit

\* the thread that runs split_video_by_words keeps being scheduled
SpecLoop == InitLoopCall /\ [][NextLoop]_vars /\ WF_vars(NextLoop)

\* ------------------------- /api/pipeline/start and run_batch_pipeline
OtherVars == <<pvars, svars, fvars, avars, nvars, wvars, lvars>>

\* the process calls of task t that are executing
Executing(t) == {v \in Videos : jpc[t][v] = "process"}

\* the videos of task t a pool thread is working on
InPool(t) ==
  {v \in Videos : jpc[t][v] \in {"process", "update", "loaded", "saved"}}

\* lines 851-947, 1101-1103: a POST to /api/pipeline/start. Nothing looks
\* for a task that is already running. pending_videos is every video
\* (process_all) or the videos whose result_data is None; with none pending
\* no task is made. Else the task is registered with status 'running', its
\* thread is started, and that thread makes its own pool and submits every
\* pending video (lines 1038-1043).
StartPipeline ==
  \E t \in Tasks, process_all \in BOOLEAN :
    /\ tpc[t] = "none"
    /\ LET pending_videos ==
             IF process_all THEN Videos
             ELSE {v \in Videos : annotations[v] = "null"}
       IN IF pending_videos = {}
          THEN /\ tpc' = [tpc EXCEPT ![t] = "no_task"]
               /\ UNCHANGED <<tstatus, pending, jpc>>
          ELSE /\ tpc' = [tpc EXCEPT ![t] = "pool"]
               /\ tstatus' = [tstatus EXCEPT ![t] = "running"]
               /\ pending' = [pending EXCEPT ![t] = pending_videos]
               /\ jpc' = [jpc EXCEPT ![t] =
                            [v \in Videos |->
                               IF v \in pending_videos THEN "queued" ELSE "none"]]
    /\ UNCHANGED <<snapshot, annotations, processed_count, failed_count,
                   results, invoked>>
    /\ UNCHANGED OtherVars

\* lines 1038-1043, 951-977: a free thread of the task's pool takes the
\* oldest submitted video and calls pipeline.process; the pool of a task has
\* MAX_WORKER_THREADS threads
PoolStart ==
  \E t \in Tasks, v \in Videos :
    /\ jpc[t][v] = "queued"
    /\ \A u \in Videos : jpc[t][u] = "queued" => v <= u
    /\ Cardinality(InPool(t)) < MAX_WORKER_THREADS
    /\ jpc' = [jpc EXCEPT ![t][v] = "process"]
    /\ invoked' = [invoked EXCEPT ![t][v] = @ + 1]
    /\ UNCHANGED <<tpc, tstatus, pending, snapshot, annotations,
                   processed_count, failed_count, results>>
    /\ UNCHANGED OtherVars

\* lines 977, 1015-1035: pipeline.process returns its record, or raises and
\* process_single_video counts the failure under completed_lock and returns
\* its 'failed' entry
ProcessReturn ==
  \E t \in Tasks, v \in Videos, ok \in BOOLEAN :
    /\ jpc[t][v] = "process"
    /\ IF ok
       THEN /\ jpc' = [jpc EXCEPT ![t][v] = "update"]
            /\ UNCHANGED failed_count
       ELSE /\ jpc' = [jpc EXCEPT ![t][v] = "returned_failed"]
            /\ failed_count' = [failed_count EXCEPT ![t] = @ + 1]
    /\ UNCHANGED <<tpc, tstatus, pending, snapshot, annotations,
                   processed_count, results, invoked>>
    /\ UNCHANGED OtherVars

\* lines 980, 740: update_annotation_result reads the whole file; no lock
\* is held
LoadAnnotations ==
  \E t \in Tasks, v \in Videos :
    /\ jpc[t][v] = "update"
    /\ snapshot' = [snapshot EXCEPT ![t][v] = annotations]
    /\ jpc' = [jpc EXCEPT ![t][v] = "loaded"]
    /\ UNCHANGED <<tpc, tstatus, pending, annotations, processed_count,
                   failed_count, results, invoked>>
    /\ UNCHANGED OtherVars

\* lines 745-770: the entry of the video is updated in the loaded list and
\* the whole list is written back
SaveAnnotations ==
  \E t \in Tasks, v \in Videos :
    /\ jpc[t][v] = "loaded"
    /\ annotations' = [snapshot[t][v] EXCEPT ![v] = "set"]
    /\ snapshot' = [snapshot EXCEPT ![t][v] = NoResults]
    /\ jpc' = [jpc EXCEPT ![t][v] = "saved"]
    /\ UNCHANGED <<tpc, tstatus, pending, processed_count, failed_count,
                   results, invoked>>
    /\ UNCHANGED OtherVars

\* lines 982-1013: the temporary file, the log entry, then the count under
\* completed_lock and the 'completed' entry
CountProcessed ==
  \E t \in Tasks, v \in Videos :
    /\ jpc[t][v] = "saved"
    /\ processed_count' = [processed_count EXCEPT ![t] = @ + 1]
    /\ jpc' = [jpc EXCEPT ![t][v] = "returned_completed"]
    /\ UNCHANGED <<tpc, tstatus, pending, snapshot, annotations, failed_count,
                   results, invoked>>
    /\ UNCHANGED OtherVars

\* a variant of Collect that keeps the entries of the videos that went well
CollectCompletedOnly ==
  \E t \in Tasks, v \in Videos :
    /\ tpc[t] = "pool"
    /\ jpc[t][v] \in {"returned_completed", "returned_failed"}
    /\ results' = [results EXCEPT ![t] =
                     IF jpc[t][v] = "returned_completed"
                     THEN Append(@, <<v, "completed">>)
                     ELSE @]
    /\ jpc' = [jpc EXCEPT ![t][v] = "collected"]
    /\ UNCHANGED <<tpc, tstatus, pending, snapshot, annotations,
                   processed_count, failed_count, invoked>>
    /\ UNCHANGED OtherVars

\* lines 1046-1053: as_completed hands over a finished future, its entry is
\* appended to the results of the task
Collect ==
  \E t \in Tasks, v \in Videos :
    /\ tpc[t] = "pool"
    /\ jpc[t][v] \in {"returned_completed", "returned_failed"}
    /\ results' = [results EXCEPT ![t] =
                     Append(@, <<v, IF jpc[t][v] = "returned_completed"
                                    THEN "completed" ELSE "failed">>)]
    /\ jpc' = [jpc EXCEPT ![t][v] = "collected"]
    /\ UNCHANGED <<tpc, tstatus, pending, snapshot, annotations,
                   processed_count, failed_count, invoked>>
    /\ UNCHANGED OtherVars

\* lines 1060-1064: every future was handed over; status 'completed'
BatchFinish ==
  \E t \in Tasks :
    /\ tpc[t] = "pool"
    /\ \A v \in pending[t] : jpc[t][v] = "collected"
    /\ tstatus' = [tstatus EXCEPT ![t] = "completed"]
    /\ tpc' = [tpc EXCEPT ![t] = "log"]
    /\ UNCHANGED <<pending, jpc, snapshot, annotations, processed_count,
                   failed_count, results, invoked>>
    /\ UNCHANGED OtherVars

\* lines 1066-1099: the operation log entry and the pipeline_complete event;
\* reading COLLECTIONS_FILE is inside the try block of line 941, so a failure
\* here sets the status to 'failed'
BatchLog ==
  \E t \in Tasks, logged \in BOOLEAN :
    /\ tpc[t] = "log"
    /\ tstatus' = [tstatus EXCEPT ![t] = IF logged THEN @ ELSE "failed"]
    /\ tpc' = [tpc EXCEPT ![t] = "ended"]
    /\ UNCHANGED <<pending, jpc, snapshot, annotations, processed_count,
                   failed_count, results, invoked>>
    /\ UNCHANGED OtherVars

InitBatchTasks ==
  /\ AtRestBut("tasks")
  /\ InitTasks

NextBatch ==
  \/ StartPipeline \/ PoolStart \/ ProcessReturn \/ LoadAnnotations
  \/ SaveAnnotations \/ CountProcessed \/ Collect \/ BatchFinish \/ BatchLog

SpecBatch == InitBatchTasks /\ [][NextBatch]_vars

\* one request to /api/pipeline/start and no other: one batch on its own
InitOneBatch ==
  /\ AtRestBut("tasks")
  /\ tpc = [t \in Tasks |-> IF t = 1 THEN "none" ELSE "no_task"]
  /\ tstatus = [t \in Tasks |-> "none"]
  /\ pending = [t \in Tasks |-> {}]
  /\ jpc = [t \in Tasks |-> [v \in Videos |-> "none"]]
  /\ snapshot = [t \in Tasks |-> [v \in Videos |-> NoResults]]
  /\ annotations = NoResults
  /\ processed_count = [t \in Tasks |-> 0]
  /\ failed_count = [t \in Tasks |-> 0]
  /\ results = [t \in Tasks |-> << >>]
  /\ invoked = [t \in Tasks |-> [v \in Videos |-> 0]]

SpecOneBatch == InitOneBatch /\ [][NextBatch]_vars

\* ================================================================ claims
IsPrefix(s, t) == Len(s) <= Len(t) /\ \A i \in 1..Len(s) : s[i] = t[i]

Range(s) == {s[i] : i \in 1..Len(s)}

\* C4: for begin_time <= end_time and an interval >= 1 the sample times are
\* begin_time, then every begin_time + k*interval below end_time, then
\* end_time: strictly ascending, both ends once, gaps of at most the
\* interval, and just begin_time when the word has no length.
C4_SampleTimesExact ==
  fn_out # << >> =>
    LET b == fn_in[1]
        e == fn_in[2]
        iv == fn_in[3]
        st == fn_out[1]
    IN /\ Range(st) = {b, e} \cup {t \in b..e : t < e /\ t > b /\ (t - b) % iv = 0}
       /\ \A j \in 1..(Len(st) - 1) : st[j] < st[j + 1] /\ st[j + 1] - st[j] <= iv
       /\ st[1] = b
       /\ st[Len(st)] = e
       /\ (b = e => st = <<b>>)
       /\ (fn_in = <<1000, 2200, 300>> => st = <<1000, 1300, 1600, 1900, 2200>>)

C4_Witness ==
  /\ fn_in = <<1000, 2200, 300>>
  /\ fn_out = << <<1000, 1300, 1600, 1900, 2200>> >>

\* C5 (as claimed): the frame index of a sample is floor(t/1000 * fps)
\* clamped into [0, total_frames - 1], so it lies in that range.
C5_FrameIndexClamped ==
  fn_out # << >> =>
    LET t == fn_in[1]
        f == fn_in[2]
        n == fn_in[3]
        exact == (t * f) \div 1000
    IN /\ fn_out[1] = IF exact > n - 1 THEN n - 1 ELSE exact
       /\ fn_out[1] >= 0
       /\ fn_out[1] <= n - 1

\* C7 (as claimed): normalized_coords is [x/1000, y/1000] and pixel_coords is
\* [floor(x * width / 1000), floor(y * height / 1000)] for a point [y, x].
C7_PixelCoordsExact ==
  fn_out # << >> =>
    LET y == fn_in[1][1]
        x == fn_in[1][2]
        width == fn_in[2][1]
        height == fn_in[2][2]
    IN /\ fn_out[1].normalized_coords = <<x, y>>
       /\ fn_out[1].pixel_coords = <<(x * width) \div 1000, (y * height) \div 1000>>

\* the stages of a run that extracted k descriptions, in the order of
\* section 4.6
ExpectedStages(k) ==
  <<"Normalize", "Transcribe", "Sample", "Describe", "ExtractObjects">>
    \o [i \in 1..k |-> "LocateObject"] \o <<"Render", "Persist">>

RunOver == pc \in {"Finally", "Failed", "Done"}

\* C1 (as claimed): with keep_extracted_files = False, once the temporary
\* directory was created it is gone when process returns or raises,
\* whichever stage the run stopped at.
C1_TempDirGone ==
  (pc \in {"Failed", "Done"} /\ temp_dir # "none") => temp_dir = "removed"

\* C2 (as claimed): a run that ends in failure wrote nothing to the JSON
\* record file; whatever is in the file is a complete record of a run whose
\* stages all succeeded.
C2_AllOrNothing ==
  /\ pc = "Failed" => json_file.state = "absent"
  /\ json_file.state # "absent" =>
       /\ json_file.state = "complete"
       /\ completed = ExpectedStages(Len(object_descriptions))
       /\ Len(json_file.data[1].objects) = Len(object_descriptions)

\* C3: the stages start in the order Normalize, Transcribe, Sample, Describe,
\* ExtractObjects, LocateObject per description, Render, Persist; a stage
\* starts only when every earlier one ran to its end without failing
\* (Sample never after a failed or empty transcription), and once the run
\* has failed or finished no stage starts.
C3_StageOrderInv ==
  /\ IsPrefix(started, ExpectedStages(Len(object_descriptions)))
  /\ IsPrefix(completed, started)
  /\ Len(started) <= Len(completed) + 1
  /\ Len(started) = Len(completed) + 1 => pc \in {"Sampling", "Finally", "Failed"}
  /\ InSeq("Sample", started) => words_list # << >>
  /\ InSeq("Render", started) =>
       Len(SelectSeq(started, LAMBDA x : x = "LocateObject")) = Len(object_descriptions)

C8_TerminalFrameFailure ==
  /\ spc = "terminal" => Len(s_result_data) = Len(words_list)
  /\ terminal_log # "none" /\ spc \in {"finally", "returned", "raised"} =>
       Len(s_result_data) = Len(words_list)
  /\ terminal_log \in {"readfail", "writefail"} =>
       /\ spc \in {"finally", "returned"} => last_frame_path = NoPath
       /\ pc \in {"Sampling", "Finally", "Failed"}
       /\ ~InSeq("Describe", started)
       /\ video_description = "none"
       /\ json_file.state = "absent"
       /\ returned = << >>

C8_Witness ==
  /\ pc = "Failed"
  /\ terminal_log = "writefail"
  /\ Len(result_data) = 2
  /\ \A i \in 1..Len(result_data) : result_data[i].paths # << >>

\* the paths of the samples of st that the log marks as read and saved
RECURSIVE SavedPaths(_, _, _)
SavedPaths(st, log, text) ==
  IF st = << >> \/ log = << >> THEN << >>
  ELSE (IF Head(log) THEN <<FramePath(Head(st), text)>> ELSE << >>)
       \o SavedPaths(Tail(st), Tail(log), text)

\* C6: a call that sampled and returned has one frame group per input word,
\* in input order, each with the word's text and [begin_time, end_time],
\* the words without any frame included.
C6_OneGroupPerWord ==
  (spc = "returned" /\ cap = "released") =>
    /\ Len(s_result_data) = Len(words_list)
    /\ \A i \in 1..Len(words_list) :
         /\ s_result_data[i].word = words_list[i].text
         /\ s_result_data[i].timestamp =
              <<words_list[i].begin_time, words_list[i].end_time>>

C6_Witness ==
  /\ spc = "returned"
  /\ cap = "released"
  /\ Len(words_list) = 2
  /\ Len(s_result_data) = 2
  /\ s_result_data[1].paths = << >>
  /\ s_result_data[2].paths # << >>

\* C9: a sample whose read or save failed is skipped and nothing else: every
\* sample of every word is attempted, and a word's path list is the paths
\* of its samples that were read and saved, in ascending sample time.
C9_FailedSampleSkipped ==
  /\ \A i \in 1..Len(s_result_data) :
       LET st == SampleTimes(words_list[i].begin_time, words_list[i].end_time,
                             sampling_interval)
           paths == s_result_data[i].paths
       IN /\ Len(sample_log[i]) = Len(st)
          /\ paths = SavedPaths(st, sample_log[i], words_list[i].text)
          /\ \A j \in 1..(Len(paths) - 1) : paths[j][1] < paths[j + 1][1]
  /\ spc = "sample" =>
       /\ Len(sample_log[wi]) = si - 1
       /\ image_paths = SavedPaths(sample_times, sample_log[wi], words_list[wi].text)
  /\ (spc = "returned" /\ cap = "released") => Len(s_result_data) = Len(words_list)

C9_Witness ==
  /\ spc = "returned"
  /\ Len(s_result_data) = 2
  /\ sample_log[1] = <<TRUE, FALSE, TRUE>>
  /\ Len(s_result_data[1].paths) = 2
  /\ s_result_data[2].paths # << >>

\* C10 (as claimed): once the video handle is open it is released before
\* split_video_by_words returns or raises, on every exit path.
C10_HandleReleased ==
  spc \in {"returned", "raised"} => cap # "open"

\* the number of times a stage started
Count(stage) == Len(SelectSeq(started, LAMBDA x : x = stage))

\* C11 (as claimed): when the video is missing or cannot be opened, reports
\* zero frames, or the word list is empty, the run stops at Sample:
\* split_video_by_words hands back nothing usable, analyze_video_intent is
\* not called, nothing is returned and no record is written.
C11_SampleAborts ==
  video_log \in {"missing", "no_words", "unopened", "zero_frames"} =>
    /\ spc = "returned" => SampleFailed(s_result_data, last_frame_path)
    /\ ~InSeq("Describe", started)
    /\ video_description = "none"
    /\ json_file.state = "absent"
    /\ returned = << >>

\* C16 (as claimed): extract_object_descriptions hands back at most 2
\* descriptions, so LocateObject starts at most twice in a run and a record
\* holds at most 2 objects.
C16_AtMostTwoObjects ==
  /\ Len(object_descriptions) <= 2
  /\ Count("LocateObject") <= 2
  /\ Len(objects) <= 2
  /\ returned # << >> => Len(returned[1].objects) <= 2

\* C17 (as claimed): in a record that process returned or wrote, both
\* components of every object's point lie in 0..1000 and both components of
\* its normalized_coords in [0, 1] (numerators in 0..1000).
C17_PointInRange ==
  \A rec \in Range(returned) \cup Range(json_file.data) :
    \A i \in 1..Len(rec.objects) :
      /\ rec.objects[i].point[1] \in 0..1000
      /\ rec.objects[i].point[2] \in 0..1000
      /\ rec.objects[i].normalized_coords[1] \in 0..1000
      /\ rec.objects[i].normalized_coords[2] \in 0..1000

\* C18: in every record process returned or wrote, objects has the length
\* and the order of the extracted descriptions (none included), with
\* objects[i].id = i from 0 and objects[i].description the i-th description;
\* a run that ended well has returned and written that record.
C18_ObjectsFollowDescriptions ==
  /\ \A rec \in Range(returned) \cup Range(json_file.data) :
       /\ Len(rec.objects) = Len(object_descriptions)
       /\ \A i \in 1..Len(rec.objects) :
            /\ rec.objects[i].id = i - 1
            /\ rec.objects[i].description = object_descriptions[i]
  /\ pc = "Done" =>
       /\ returned # << >>
       /\ json_file = [state |-> "complete", data |-> returned]
  /\ \A i \in 1..Len(objects) :
       objects[i].id = i - 1 /\ objects[i].description = object_descriptions[i]

C18_Witness ==
  /\ pc = "Done"
  /\ Len(object_descriptions) = 2
  /\ Len(returned[1].objects) = 2
  /\ returned[1].objects[2].id = 1
  /\ returned[1].objects[2].description = object_descriptions[2]

\* C19: within one run the recognizer, analyze_video_intent and
\* extract_object_descriptions are each called at most once and
\* locate_object_in_image at most once per description (a stage start is
\* the call of its external service); a call that failed is not repeated:
\* the run is then in its finally clause or over.
C19_NoRetry ==
  /\ Count("Normalize") <= 1
  /\ Count("Transcribe") <= 1
  /\ Count("Describe") <= 1
  /\ Count("ExtractObjects") <= 1
  /\ Count("LocateObject") <= Len(object_descriptions)
  /\ Count("LocateObject") <= Len(objects) + 1
  /\ raised => pc \in {"Finally", "Failed"}
  /\ (Len(started) > Len(completed) /\ pc # "Sampling") =>
       pc \in {"Finally", "Failed"}

C19_Witness ==
  /\ pc = "Failed"
  /\ raised
  /\ Len(object_descriptions) = 2
  /\ Count("LocateObject") = 2
  /\ Len(objects) = 1

\* C12: audio_to_words_with_timestamps never raises; a missing input file,
\* a failed mono conversion, a non-OK status and an exception of the
\* recognizer each give exactly (False, []), and the recognizer is not
\* called when the file is missing or the conversion failed.
C12_FailuresReturnFalse ==
  /\ apc \notin {"raise", "raised"}
  /\ apc = "returned" => a_result # << >>
  /\ (a_log \in {"missing", "convert_failed", "not_ok", "throws"}
        /\ apc = "returned") => a_result = << <<FALSE, << >> >> >>
  /\ a_log \in {"missing", "convert_failed"} => asr_calls = 0
  /\ asr_calls <= 1

C12_Witness ==
  /\ apc = "returned"
  /\ a_log = "throws"
  /\ asr_calls = 1
  /\ a_result = << <<FALSE, << >> >> >>

\* C13 (as claimed): whenever audio_to_words_with_timestamps returns
\* success = True the word list is not empty, also when the first sentence
\* carries a words array without entries.
C13_SuccessHasWords ==
  (apc = "returned" /\ a_result[1][1]) => a_result[1][2] # << >>

\* C14 (as claimed): when audio_to_words_with_timestamps returns, the mono
\* file created during the call is gone, on success and on every failure,
\* a failure inside convert_to_mono after mkstemp included.
C14_MonoFileDeleted ==
  apc = "returned" => temp_file # "exists"

\* C15 (as claimed): extract_audio_and_video never raises; it returns two
\* paths or (None, None), never one of each; ffmpeg is run for the video
\* only after the run for the audio succeeded.
C15_NormalizerSentinel ==
  /\ npc # "raised"
  /\ npc = "returned" =>
       /\ n_result # << >>
       /\ (n_result[1][1] = NoPath) <=> (n_result[1][2] = NoPath)
  /\ \A i \in 1..Len(ffmpeg_log) :
       ffmpeg_log[i][1] = "video" => i = 2 /\ ffmpeg_log[1] = <<"audio", "ok">>

\* the workers that wrote a target
Writers(target) == {w \in Workers : <<target, w>> \in writes}

\* C20 (as claimed): two runs of process on different videos of a batch
\* share no mutable state: no path and no process-global variable is written
\* by both, under every interleaving.
C20_NoSharedWrites ==
  \A wr \in writes : Cardinality(Writers(wr[1])) <= 1

\* C21 (as claimed): the message list is one system message, then one user
\* message per frame group in word order; user message i holds the text
\* label of word i and then one image entry per frame path of group i, in
\* path order; a group without frames contributes its text label alone.
C21_MessageShape ==
  fn_out # << >> =>
    LET groups == fn_in[1]
        message == fn_out[1]
    IN /\ Len(message) = 1 + Len(groups)
       /\ message[1].role = "system"
       /\ \A i \in 1..Len(groups) :
            LET content == message[i + 1].content
            IN /\ message[i + 1].role = "user"
               /\ content[1] = [type |-> "text", value |-> groups[i].word]
               /\ Len(content) = 1 + Len(groups[i].paths)
               /\ \A j \in 1..Len(groups[i].paths) :
                    content[j + 1] =
                      [type |-> "image_url", value |-> groups[i].paths[j]]

\* C22: whatever the channels and the frame rate of the input, the audio
\* convert_to_mono exports has 1 channel at 16000 Hz, and converting that
\* output again exports audio with the same metadata.
C22_MonoIdempotent ==
  /\ (Len(fn_out) >= 1 /\ fn_out[1] # NoAudio) => fn_out[1] = <<1, 16000>>
  /\ (Len(fn_out) = 2 /\ fn_out[2] # NoAudio) => fn_out[2] = fn_out[1]

C22_Witness ==
  /\ fn_in = <<2, 44100>>
  /\ Len(fn_out) = 2
  /\ fn_out[2] # NoAudio

\* C26 (as claimed): for a point with both components in 0..1000, the pixel
\* coordinates of the object lie inside the frame: 0 <= pixel_x < width and
\* 0 <= pixel_y < height.
C26_PixelInsideFrame ==
  (fn_out # << >> /\ fn_in[1][1] \in 0..1000 /\ fn_in[1][2] \in 0..1000) =>
    /\ fn_out[1].pixel_coords[1] >= 0
    /\ fn_out[1].pixel_coords[1] < fn_in[2][1]
    /\ fn_out[1].pixel_coords[2] >= 0
    /\ fn_out[1].pixel_coords[2] < fn_in[2][2]

\* the words ASR hands over for speech: each word lasts, and a word starts
\* no earlier than the word before it ends
WordsInSequence ==
  /\ \A i \in 1..Len(words_list) :
       words_list[i].begin_time < words_list[i].end_time
  /\ \A i \in 1..(Len(words_list) - 1) :
       words_list[i].end_time <= words_list[i + 1].begin_time

\* C28 (as claimed): frames saved for distinct (word position, sample time)
\* pairs lie under distinct paths: no path occurs twice in a word's path
\* list, and no path occurs in the lists of two words, also when the two
\* words have the same text and share a boundary time.
C28_DistinctFramePaths ==
  WordsInSequence =>
    /\ \A i \in 1..Len(s_result_data) :
         \A j, k \in 1..Len(s_result_data[i].paths) :
           j # k => s_result_data[i].paths[j] # s_result_data[i].paths[k]
    /\ \A i, j \in 1..Len(s_result_data) :
         i # j =>
           Range(s_result_data[i].paths)
             \cap Range(s_result_data[j].paths) = {}

\* what process leaves on disk under a directory: the temporary directory
\* is there until rmtree removed it, the output directory is never removed
DirExists(dir) == IF dir = "temp_dir" THEN temp_dir = "exists" ELSE TRUE

\* C25 (as claimed): when process has returned a record, the files its
\* video_path and audio_path name exist, and its last_image_path names a
\* saved frame, with keep_extracted_files False as well as True.
C25_ReturnedPathsExist ==
  (pc = "Done" /\ returned # << >>) =>
    /\ DirExists(returned[1].video_path[1])
    /\ DirExists(returned[1].audio_path[1])
    /\ returned[1].last_image_path # NoPath

\* C29 (as claimed): the preview image is on disk only after every
\* LocateObject iteration succeeded, and then carries one marker per object;
\* the JSON record is on disk only after the preview image; a run that
\* failed in LocateObject has written neither.
C29_PreviewBeforeRecord ==
  /\ preview.loaded =>
       /\ Len(objects) = Len(object_descriptions)
       /\ Len(preview.markers) = Len(objects)
  /\ json_file.state # "absent" => preview.loaded
  /\ (raised /\ started # << >> /\ started[Len(started)] = "LocateObject") =>
       /\ ~preview.loaded
       /\ json_file.state = "absent"

\* C27 (as claimed): for a word with begin_time < end_time and any integer
\* sampling_interval, zero and negative included, the computation of the
\* word's sample times comes to its end.
C27_LoopTerminates == <>(lpc = "done")

\* the loop, where it ends, has computed the sample times of SampleTimes
LoopAgreesWithSampleTimes ==
  lpc = "done" =>
    loop_times = SampleTimes(loop_word[1], loop_word[2], loop_interval)

\* C30 (as claimed): at most MAX_WORKER_THREADS calls of process are
\* executing for the batch layer at any time, also when several batch tasks
\* were started through /api/pipeline/start.
C30_AtMostThreeCalls ==
  Cardinality(UNION {{<<t, v>> : v \in Executing(t)} : t \in Tasks})
    <= MAX_WORKER_THREADS

\* the entries of the results list of task t that name video v
EntriesOf(t, v) == {i \in 1..Len(results[t]) : results[t][i][1] = v}

C24_ResultsRecorded ==
  \A t \in Tasks :
    tpc[t] \in {"log", "ended"} =>
      \A v \in pending[t] :
        (\E i \in EntriesOf(t, v) : results[t][i][2] = "completed") =>
          annotations[v] = "set"

====
